---- MODULE Spec2Model ----
(***************************************************************************)
(* A model of nacoustik's acoustic complexity index (index/indices.py) and *)
(* of its psd estimator (spectrum/analysis.py, wavescape/analysis.py).     *)
(*                                                                         *)
(* float64 values are modelled as exact extended rationals <<n, d>>:       *)
(* d > 0 is the finite value n/d in lowest terms, <<1,0>> is +inf,         *)
(* <<-1,0>> is -inf and <<0,0>> is NaN.  Rounding error and the sign of    *)
(* zero are not modelled.                                                  *)
(***************************************************************************)
EXTENDS Integers, Sequences, FiniteSets, TLC

VARIABLES
    a, time_delta, block_duration,      \* arguments of calculate_aci
    block_delta, n_blocks, remainder,   \* the block partition
    channel, f_band,                    \* loop position
    aci_f_band,                         \* the work array of the current pair
    aci,                                \* the output array
    pc, err,                            \* control position, pending exception
    invocation, prev,                   \* call number, result of the first call
    p_impl, p_wave, p_rate, p_units, p_kind,     \* arguments of psd
    p_pc, p_err, p_trace, p_result,               \* psd: position, exception, work done, value
    s_a, s_rate, s_duration, s_b,                 \* arguments of sel
    s_limit, s_bin_width, s_return_bins,
    s_f_delta, s_bounds, s_sel,                   \* sel: f_delta, bin_bound_indicies, sel
    s_anthrophony, s_biophony,
    s_pc, s_result                                \* sel: position, value returned

aciVars == <<a, time_delta, block_duration, block_delta, n_blocks, remainder, channel, f_band, aci_f_band, aci, pc, err, invocation, prev>>

psdVars == <<p_impl, p_wave, p_rate, p_units, p_kind, p_pc, p_err, p_trace, p_result>>

selVars == <<s_a, s_rate, s_duration, s_b, s_limit, s_bin_width, s_return_bins, s_f_delta, s_bounds, s_sel, s_anthrophony, s_biophony, s_pc, s_result>>

vars == <<aciVars, psdVars, selVars>>

-----------------------------------------------------------------------------
(* Bounds of the model *)

\* longest time axis
MaxT == 5

\* intensities a spectrogram sample may take
Intensity == {0, 1}

\* (channels, frequency bands) shapes of the tensor
Shapes == {<<1, 2>>, <<2, 1>>}

\* time_delta and block_duration, in a common unit of time
TimeDeltas == {-2, 0, 2}

BlockDurations == {1, 2, 3, 5, 6}

-----------------------------------------------------------------------------
(* float64 arithmetic *)

Abs(x) == IF x < 0 THEN -x ELSE x

Sgn(x) == IF x < 0 THEN -1 ELSE IF x = 0 THEN 0 ELSE 1

RECURSIVE GCD(_, _)
GCD(m, n) == IF n = 0 THEN m ELSE GCD(n, m % n)

\* the finite value n/d, d # 0, in lowest terms
Rat(n, d) ==
    LET g == GCD(Abs(n), Abs(d))
        s == Sgn(d)
    IN  <<(s * n) \div g, (s * d) \div g>>

NaN == <<0, 0>>

PosInf == <<1, 0>>

NegInf == <<-1, 0>>

Zero == <<0, 1>>

One == <<1, 1>>

IsFinite(x) == x[2] # 0

\* x + y
FAdd(x, y) ==
    IF IsFinite(x) /\ IsFinite(y) THEN Rat(x[1] * y[2] + y[1] * x[2], x[2] * y[2])
    ELSE IF x = NaN \/ y = NaN THEN NaN
    ELSE IF ~IsFinite(x) /\ ~IsFinite(y) THEN (IF x = y THEN x ELSE NaN)
    ELSE IF ~IsFinite(x) THEN x ELSE y

\* x / y with a zero divisor guarded: the quotient is then 0
FDivGuarded(x, y) ==
    IF x = NaN \/ y = NaN THEN NaN
    ELSE IF ~IsFinite(y) THEN (IF IsFinite(x) THEN Zero ELSE NaN)
    ELSE IF y[1] = 0 THEN Zero
    ELSE IF ~IsFinite(x) THEN <<x[1] * Sgn(y[1]), 0>>
    ELSE Rat(x[1] * y[2], x[2] * y[1])

\* x / y as compiled for a gufunc (numpy error model): no exception is
\* raised, a zero divisor gives inf, or NaN for 0 / 0
FDiv(x, y) ==
    IF x = NaN \/ y = NaN THEN NaN
    ELSE IF ~IsFinite(y) THEN (IF IsFinite(x) THEN Zero ELSE NaN)
    ELSE IF y[1] = 0 THEN (IF x[1] = 0 THEN NaN ELSE <<Sgn(x[1]), 0>>)
    ELSE IF ~IsFinite(x) THEN <<x[1] * Sgn(y[1]), 0>>
    ELSE Rat(x[1] * y[2], x[2] * y[1])

\* the values an uninitialised float64 may hold
Garbage == {Zero, One, NaN}

\* ndarray.sum() of the float64 array f over the index set S
RECURSIVE FSum(_, _)
FSum(f, S) ==
    IF S = {} THEN Zero
    ELSE LET i == CHOOSE j \in S : TRUE
         IN  FAdd(f[i], FSum(f, S \ {i}))

\* sum of the integers g[i], i in S
RECURSIVE ISum(_, _)
ISum(g, S) ==
    IF S = {} THEN 0
    ELSE LET i == CHOOSE j \in S : TRUE
         IN  g[i] + ISum(g, S \ {i})

-----------------------------------------------------------------------------
(* The tensor *)

NChannels == Cardinality(DOMAIN a)

NBands == Cardinality(DOMAIN a[0])

\* a.shape[2]
NSteps == Cardinality(DOMAIN a[0][0])

Cells == {<<c, f>> : c \in DOMAIN a, f \in DOMAIN a[0]}

Tensors ==
    UNION {[0 .. sh[1] - 1 -> [0 .. sh[2] - 1 -> [0 .. T - 1 -> Intensity]]] : sh \in Shapes, T \in 0 .. MaxT}

\* np.zeros(shape=(a.shape[0], a.shape[1]))
ZerosLike(t) == [c \in DOMAIN t |-> [f \in DOMAIN t[0] |-> Zero]]

-----------------------------------------------------------------------------
(* The block partition, lines 19-21 *)

\* np.around(p / q), q # 0: round half to even
Around(p, q) ==
    LET n == Abs(p)
        d == Abs(q)
        lo == n \div d
        r2 == 2 * (n % d)
        m == IF r2 < d THEN lo
             ELSE IF r2 > d THEN lo + 1
             ELSE IF lo % 2 = 0 THEN lo ELSE lo + 1
    IN  Sgn(p) * Sgn(q) * m

\* block_delta = int(np.around(block_duration[0] / time_delta[0])), time_delta # 0
BlockDelta(bdur, td) == Around(bdur, td)

\* the block count rounded up instead of down
NBlocksCeil(T, bd) == IF bd > 0 THEN -((-T) \div bd) ELSE -(T \div (-bd))

\* n_blocks = int(np.floor(a.shape[2] / block_delta)), block_delta # 0
NBlocks(T, bd) == IF bd > 0 THEN T \div bd ELSE (-T) \div (-bd)

\* remainder = int(a.shape[2] - (block_delta * n_blocks))
Remainder(T, bd, nb) == T - (bd * nb)

-----------------------------------------------------------------------------
(* One (channel, frequency band) pair, lines 24-53.  s is the slice         *)
(* a[channel, f_band, :], a function on 0 .. T-1.                            *)

\* the indices of the Python slice s[start:stop] of an axis of length T
PySlice(T, start, stop) ==
    LET lo == IF start < 0 THEN (IF start + T < 0 THEN 0 ELSE start + T)
              ELSE (IF start > T THEN T ELSE start)
        hi == IF stop < 0 THEN (IF stop + T < 0 THEN 0 ELSE stop + T)
              ELSE (IF stop > T THEN T ELSE stop)
    IN  lo .. hi - 1

\* the first index of the difference started one step late
FullBlockIndexShifted(t_step, block) == (t_step + 1) * (block + 1)

\* lines 30 and 33: the time index t_step * (block + 1) of the first sample
\* of difference t_step of full block `block`; the second is the next index
FullBlockIndex(t_step, block) == t_step * (block + 1)

\* lines 27-33: the time indices read for D of full block `block`
FullBlockReads(block, bd) ==
    UNION {{FullBlockIndex(t, block), FullBlockIndex(t, block) + 1} : t \in 0 .. bd - 2}

\* lines 26-34: D of full block `block`
FullBlockD(s, block, bd) ==
    ISum([t \in 0 .. bd - 2 |-> Abs(s[FullBlockIndex(t, block)] - s[FullBlockIndex(t, block) + 1])], 0 .. bd - 2)

\* lines 35-37: a[channel, f_band, block_delta*block : block_delta*(block+1)].sum()
FullBlockSum(s, T, block, bd) ==
    ISum(s, PySlice(T, bd * block, bd * (block + 1)))

\* lines 34-37: the value stored in aci_f_band[block]
FullBlockRatio(s, T, block, bd) ==
    FDiv(Rat(FullBlockD(s, block, bd), 1), Rat(FullBlockSum(s, T, block, bd), 1))

\* lines 43 and 46: the time index (t_step * n_blocks) + t_step of the first
\* sample of difference t_step of the remainder block
RemainderIndex(t_step, nb) == (t_step * nb) + t_step

\* lines 40-46: the time indices read for D of the remainder block
RemainderReads(nb, r) ==
    UNION {{RemainderIndex(t, nb), RemainderIndex(t, nb) + 1} : t \in 0 .. r - 2}

\* lines 39-47: D of the remainder block
RemainderD(s, nb, r) ==
    ISum([t \in 0 .. r - 2 |-> Abs(s[RemainderIndex(t, nb)] - s[RemainderIndex(t, nb) + 1])], 0 .. r - 2)

\* lines 48-50: a[channel, f_band, -(remainder + 1):-1].sum()
RemainderSum(s, T, r) ==
    ISum(s, PySlice(T, -(r + 1), -1))

\* lines 47-50: the value stored in aci_f_band[-1]
RemainderRatio(s, T, nb, r) ==
    FDiv(Rat(RemainderD(s, nb, r), 1), Rat(RemainderSum(s, T, r), 1))

\* line 24: np.empty(shape=(n_blocks + 1)) whose memory holds g.  Slots
\* 0 .. n_blocks-1 are always written before they are read, so one value
\* stands for the whole block of memory.
EmptyWork(nb, g) == [i \in 0 .. nb |-> g]

\* lines 52-53: aci_f_band.sum() / (n_blocks + (remainder / block_delta))
AverageOverBlocks(w, nb, r, bd) ==
    FDiv(FSum(w, DOMAIN w), FAdd(Rat(nb, 1), Rat(r, bd)))

-----------------------------------------------------------------------------
(* calculate_aci *)

InitAci ==
    /\ a \in Tensors
    /\ time_delta \in TimeDeltas
    /\ block_duration \in BlockDurations
    /\ block_delta = 0 /\ n_blocks = 0 /\ remainder = 0
    /\ channel = 0 /\ f_band = 0
    /\ aci_f_band = <<>>
    /\ aci = ZerosLike(a)
    /\ pc = "partition" /\ err = "none"
    /\ invocation = 1 /\ prev = <<>>

\* lines 19-21.  A zero time_delta or a zero block_delta makes the quotient
\* inf or NaN, and int() of that is not defined.
Partition ==
    /\ pc = "partition"
    /\ IF time_delta = 0 \/ BlockDelta(block_duration, time_delta) = 0
       THEN /\ pc' = "undefined"
            /\ UNCHANGED <<block_delta, n_blocks, remainder>>
       ELSE /\ block_delta' = BlockDelta(block_duration, time_delta)
            /\ n_blocks' = NBlocks(NSteps, block_delta')
            /\ remainder' = Remainder(NSteps, block_delta', n_blocks')
            /\ pc' = "alloc"
    /\ channel' = 0 /\ f_band' = 0
    /\ UNCHANGED <<a, time_delta, block_duration, aci_f_band, aci, err, invocation, prev, psdVars, selVars>>

\* the run after an undefined integer: a negative dimension is rejected, or
\* the call returns whatever the loops left in the output
Undefined ==
    /\ pc = "undefined"
    /\ \/ /\ pc' = "raised" /\ err' = "ValueError"
          /\ UNCHANGED aci
       \/ /\ aci' \in [DOMAIN a -> [DOMAIN a[0] -> Garbage]]
          /\ pc' = "returned"
          /\ UNCHANGED err
    /\ UNCHANGED <<a, time_delta, block_duration, block_delta, n_blocks, remainder, channel, f_band, aci_f_band, invocation, prev, psdVars, selVars>>

\* line 24
AllocWork ==
    /\ pc = "alloc"
    /\ IF n_blocks + 1 < 0
       THEN /\ pc' = "raised" /\ err' = "ValueError"
            /\ UNCHANGED aci_f_band
       ELSE /\ \E g \in Garbage : aci_f_band' = EmptyWork(n_blocks, g)
            /\ pc' = "blocks"
            /\ UNCHANGED err
    /\ UNCHANGED <<a, time_delta, block_duration, block_delta, n_blocks, remainder, channel, f_band, aci, invocation, prev, psdVars, selVars>>

\* lines 25-37
FullBlocks ==
    /\ pc = "blocks"
    /\ aci_f_band' = [i \in DOMAIN aci_f_band |->
                        IF i < n_blocks
                        THEN FullBlockRatio(a[channel][f_band], NSteps, i, block_delta)
                        ELSE aci_f_band[i]]
    /\ pc' = "remainder"
    /\ UNCHANGED <<a, time_delta, block_duration, block_delta, n_blocks, remainder, channel, f_band, aci, err, invocation, prev, psdVars, selVars>>

\* lines 38-50
RemainderBlock ==
    /\ pc = "remainder"
    /\ IF remainder > 1
       THEN aci_f_band' = [aci_f_band EXCEPT ![Cardinality(DOMAIN aci_f_band) - 1] =
                              RemainderRatio(a[channel][f_band], NSteps, n_blocks, remainder)]
       ELSE UNCHANGED aci_f_band
    /\ pc' = "average"
    /\ UNCHANGED <<a, time_delta, block_duration, block_delta, n_blocks, remainder, channel, f_band, aci, err, invocation, prev, psdVars, selVars>>

\* lines 52-53, and the step of the loops of lines 22-23
Average ==
    /\ pc = "average"
    /\ aci' = [aci EXCEPT ![channel][f_band] =
                  AverageOverBlocks(aci_f_band, n_blocks, remainder, block_delta)]
    /\ IF f_band + 1 < NBands
       THEN /\ f_band' = f_band + 1 /\ pc' = "alloc" /\ UNCHANGED channel
       ELSE IF channel + 1 < NChannels
       THEN /\ channel' = channel + 1 /\ f_band' = 0 /\ pc' = "alloc"
       ELSE /\ pc' = "returned" /\ UNCHANGED <<channel, f_band>>
    /\ UNCHANGED <<a, time_delta, block_duration, block_delta, n_blocks, remainder, aci_f_band, err, invocation, prev, psdVars, selVars>>

\* calculate_aci called once more with the same arguments
Reinvoke ==
    /\ pc = "returned" /\ invocation = 1
    /\ prev' = aci
    /\ aci' = ZerosLike(a)
    /\ invocation' = 2
    /\ pc' = "partition"
    /\ block_delta' = 0 /\ n_blocks' = 0 /\ remainder' = 0
    /\ channel' = 0 /\ f_band' = 0
    /\ aci_f_band' = <<>>
    /\ UNCHANGED <<a, time_delta, block_duration, err, psdVars, selVars>>

-----------------------------------------------------------------------------
(* psd: nacoustik/spectrum/analysis.py and the earlier wavescape/analysis.py *)

\* The `wave` argument: its type and the attributes a later step needs.
\* readable: a str names a WAV file that sox and scipy can open.
WaveObject(samples, rate) ==
    [type |-> "Wave", samples |-> samples, rate |-> rate, readable |-> TRUE]

WaveArgs ==
    { WaveObject(TRUE, TRUE),
      WaveObject(FALSE, FALSE),
      WaveObject(TRUE, FALSE),
      [type |-> "str", samples |-> FALSE, rate |-> FALSE, readable |-> TRUE],
      [type |-> "str", samples |-> FALSE, rate |-> FALSE, readable |-> FALSE],
      [type |-> "ndarray", samples |-> TRUE, rate |-> FALSE, readable |-> TRUE] }

RateArgs == {"None", "given"}

UnitsArgs == {"decibels", "watts", "pascals"}

KindArgs == {"spectrogram", "mean", "both", "median"}

\* the units check left out
UnitsAcceptedAny(u) == TRUE

\* units not in ['decibels', 'watts'] is False
UnitsAccepted(u) == u \in {"decibels", "watts"}

\* kind not in ['spectrogram', 'mean', 'both'] is False
KindAccepted(k) == k \in {"spectrogram", "mean", "both"}

\* 10 * np.log10(x / (pressure_reference**2)): x on the decibel scale
Decibels(x) == [units |-> "decibels", of |-> x]

\* x as computed, in watts
Watts(x) == [units |-> "watts", of |-> x]

InitPsd ==
    /\ p_impl \in {"nacoustik", "wavescape"}
    /\ p_wave \in WaveArgs
    /\ p_units \in UnitsArgs
    /\ IF p_impl = "nacoustik"
       THEN p_rate \in RateArgs /\ p_kind \in KindArgs /\ p_pc = "check_wave"
       ELSE p_rate = "none" /\ p_kind = "none" /\ p_pc = "check_units"
    /\ p_err = "none" /\ p_trace = <<>> /\ p_result = <<>>

\* nacoustik lines 55-56: Wave(wave), wave.py lines 32-46
CheckWave ==
    /\ p_impl = "nacoustik" /\ p_pc = "check_wave"
    /\ IF p_wave.type = "Wave"
       THEN /\ p_pc' = "check_samples"
            /\ UNCHANGED <<p_wave, p_trace, p_err>>
       ELSE IF p_wave.type = "str" /\ ~p_wave.readable
       THEN /\ p_pc' = "raised" /\ p_err' = "OSError"
            /\ p_trace' = Append(p_trace, "Wave")
            /\ UNCHANGED p_wave
       ELSE /\ p_wave' = WaveObject(p_wave.type = "ndarray", FALSE)
            /\ p_trace' = Append(p_trace, "Wave")
            /\ p_pc' = "check_samples"
            /\ UNCHANGED p_err
    /\ UNCHANGED <<p_impl, p_rate, p_units, p_kind, p_result, aciVars, selVars>>

\* nacoustik lines 57-58: wave.read(), wave.py lines 71-80
CheckSamples ==
    /\ p_impl = "nacoustik" /\ p_pc = "check_samples"
    /\ IF p_wave.samples
       THEN UNCHANGED <<p_wave, p_trace>>
       ELSE /\ p_wave' = WaveObject(TRUE, TRUE)
            /\ p_trace' = Append(p_trace, "read")
    /\ p_pc' = "check_rate"
    /\ UNCHANGED <<p_impl, p_rate, p_units, p_kind, p_err, p_result, aciVars, selVars>>

\* nacoustik lines 60-61: rate = wave.rate
CheckRate ==
    /\ p_impl = "nacoustik" /\ p_pc = "check_rate"
    /\ IF p_rate = "None" /\ ~p_wave.rate
       THEN p_pc' = "raised" /\ p_err' = "AttributeError" /\ UNCHANGED p_rate
       ELSE p_pc' = "check_units" /\ p_rate' = "given" /\ UNCHANGED p_err
    /\ UNCHANGED <<p_impl, p_wave, p_units, p_kind, p_trace, p_result, aciVars, selVars>>

\* nacoustik lines 63-64, wavescape lines 48-49
CheckUnits ==
    /\ p_pc = "check_units"
    /\ IF UnitsAccepted(p_units)
       THEN /\ p_pc' = (IF p_impl = "nacoustik" THEN "check_kind" ELSE "spectrogram")
            /\ UNCHANGED p_err
       ELSE p_pc' = "raised" /\ p_err' = "ValueError"
    /\ UNCHANGED <<p_impl, p_wave, p_rate, p_units, p_kind, p_trace, p_result, aciVars, selVars>>

\* nacoustik lines 65-66
CheckKind ==
    /\ p_impl = "nacoustik" /\ p_pc = "check_kind"
    /\ IF KindAccepted(p_kind)
       THEN p_pc' = "spectrogram" /\ UNCHANGED p_err
       ELSE p_pc' = "raised" /\ p_err' = "ValueError"
    /\ UNCHANGED <<p_impl, p_wave, p_rate, p_units, p_kind, p_trace, p_result, aciVars, selVars>>

\* nacoustik lines 68-83, wavescape lines 51-66: wave.n_samples, wave.samples
\* and (wavescape) wave.rate are read
Spectrogram ==
    /\ p_pc = "spectrogram"
    /\ IF p_wave.type = "Wave" /\ p_wave.samples /\ (p_impl = "nacoustik" \/ p_wave.rate)
       THEN /\ p_trace' = Append(p_trace, "spectrogram")
            /\ p_pc' = (IF p_impl = "nacoustik" THEN "mean" ELSE "convert")
            /\ UNCHANGED p_err
       ELSE /\ p_pc' = "raised" /\ p_err' = "AttributeError"
            /\ UNCHANGED p_trace
    /\ UNCHANGED <<p_impl, p_wave, p_rate, p_units, p_kind, p_result, aciVars, selVars>>

\* nacoustik lines 85-87
Mean ==
    /\ p_impl = "nacoustik" /\ p_pc = "mean"
    /\ IF p_kind \in {"mean", "both"}
       THEN p_trace' = Append(p_trace, "psd_mean")
       ELSE UNCHANGED p_trace
    /\ p_pc' = "convert"
    /\ UNCHANGED <<p_impl, p_wave, p_rate, p_units, p_kind, p_err, p_result, aciVars, selVars>>

\* Python's None, the value of a call that ends without a return statement
None == <<"None">>

\* nacoustik lines 89-104: the value the call returns
PsdValue(units, kind) ==
    IF units = "decibels"
    THEN IF kind = "mean" THEN None
         ELSE IF kind = "both" THEN <<"f", "t", Decibels("psd"), Decibels("psd_mean")>>
         ELSE <<"f", "t", Decibels("psd")>>
    ELSE IF kind = "mean" THEN <<"f", "t", Watts("psd_mean")>>
         ELSE IF kind = "both" THEN <<"f", "t", Watts("psd"), Watts("psd_mean")>>
         ELSE <<"f", "t", Watts("psd")>>

\* wavescape lines 68-72
WavescapePsdValue(units) ==
    IF units = "decibels" THEN <<"f", "t", Decibels("psd")>> ELSE <<"f", "t", Watts("psd")>>

\* nacoustik lines 89-104, wavescape lines 68-72
Convert ==
    /\ p_pc = "convert"
    /\ p_result' = (IF p_impl = "nacoustik" THEN PsdValue(p_units, p_kind)
                    ELSE WavescapePsdValue(p_units))
    /\ p_pc' = "returned"
    /\ UNCHANGED <<p_impl, p_wave, p_rate, p_units, p_kind, p_err, p_trace, aciVars, selVars>>

-----------------------------------------------------------------------------
(* sel: nacoustik/spectrum/analysis.py lines 107-187.  The psd array `a` is  *)
(* modelled with one channel and one time step: s_a[i] is the level, in     *)
(* decibels, of frequency band i.  arange and searchsorted are computed      *)
(* exactly, without the rounding of float steps.                             *)

\* (rate, a.shape[1]) of the calls
SelGrids == {<<8000, 5>>, <<8000, 9>>, <<12000, 7>>}

\* levels of a band, in decibels
SelLevels == {0, 10}

SelLimits == {1000, 2000, 3000}

SelBinWidths == {500, 1000, 2000}

SelDurations == {1, 2}

RECURSIVE Pow10(_)
Pow10(n) == IF n <= 0 THEN 1 ELSE 10 * Pow10(n - 1)

\* 10**(x / 10), for a level x that is a multiple of 10 dB
DbToWatts(x) == Rat(Pow10(x \div 10), 1)

\* x * y
FMul(x, y) ==
    IF IsFinite(x) /\ IsFinite(y) THEN Rat(x[1] * y[1], x[2] * y[2])
    ELSE IF x = NaN \/ y = NaN \/ x[1] = 0 \/ y[1] = 0 THEN NaN
    ELSE <<Sgn(x[1]) * Sgn(y[1]), 0>>

\* 10 * np.log10(x): x on the decibel scale
Log10Times10(x) == [decibels_of |-> x]

\* the masked array b: no band masked, or the lower half of the bands masked
SelMasks(n) == {[i \in 0 .. n - 1 |-> FALSE], [i \in 0 .. n - 1 |-> i < n \div 2]}

NoB == [given |-> FALSE, data |-> <<>>, mask |-> <<>>]

\* a.shape[1]
SelNBands == Cardinality(DOMAIN s_a)

\* line 141: f_delta = (rate / 2) / (a.shape[1] - 1)
FDelta(rate, n) == Rat(rate, 2 * (n - 1))

\* line 149: len(np.arange(0, rate / 2, bin_width))
NBins(rate, bw) == ((rate + (2 * bw)) - 1) \div (2 * bw)

\* lines 147-150: np.searchsorted(f, x) for f = np.arange(0, (rate / 2) +
\* f_delta, f_delta): the first index i with i * f_delta >= x, or len(f)
SearchSorted(rate, n, x) ==
    LET hit == {i \in 0 .. n - 1 : i * rate >= x * 2 * (n - 1)}
    IN  IF hit = {} THEN n ELSE CHOOSE i \in hit : \A j \in hit : i <= j

\* lines 149-152: bin_bound_indicies
BinBoundIndicies(rate, n, bw) ==
    [j \in 0 .. NBins(rate, bw) |->
        IF j < NBins(rate, bw) THEN SearchSorted(rate, n, j * bw) ELSE n]

\* lines 138-142: a = 10**(a / 10) * f_delta
ScaledWatts(lev, fd) == [i \in DOMAIN lev |-> FMul(DbToWatts(lev[i]), fd)]

\* lines 155-162: sel[i] = a[:, low_bound:high_bound, :].sum() / duration
SelBins(w, bounds, dur) ==
    [j \in 0 .. Cardinality(DOMAIN bounds) - 2 |->
        FDiv(FSum(w, PySlice(Cardinality(DOMAIN w), bounds[j], bounds[j + 1])), Rat(dur, 1))]

\* line 165: sel[0:2].sum()
Anthrophony(sl) == FSum(sl, PySlice(Cardinality(DOMAIN sl), 0, 2))

\* line 166: sel[2:10].sum()
Biophony(sl) == FSum(sl, PySlice(Cardinality(DOMAIN sl), 2, 10))

InitSel ==
    /\ \E g \in SelGrids :
          /\ s_rate = g[1]
          /\ s_a \in [0 .. g[2] - 1 -> SelLevels]
          /\ s_b \in {NoB} \cup {[given |-> TRUE, data |-> s_a, mask |-> m] : m \in SelMasks(g[2])}
    /\ s_duration \in SelDurations
    /\ s_limit \in SelLimits
    /\ s_bin_width \in SelBinWidths
    /\ s_return_bins \in BOOLEAN
    /\ s_f_delta = Zero /\ s_bounds = <<>> /\ s_sel = <<>>
    /\ s_anthrophony = Zero /\ s_biophony = Zero
    /\ s_pc = "to_watts" /\ s_result = <<>>

\* lines 137-145
SelToWatts ==
    /\ s_pc = "to_watts"
    /\ s_f_delta' = FDelta(s_rate, SelNBands)
    /\ s_a' = ScaledWatts(s_a, s_f_delta')
    /\ s_pc' = (IF s_b.given THEN "masked" ELSE "bins")
    /\ UNCHANGED <<s_rate, s_duration, s_b, s_limit, s_bin_width, s_return_bins, s_bounds, s_sel, s_anthrophony, s_biophony, s_result, aciVars, psdVars>>

\* lines 146-152
SelBinBounds ==
    /\ s_pc = "bins"
    /\ s_bounds' = BinBoundIndicies(s_rate, SelNBands, s_bin_width)
    /\ s_pc' = "sum"
    /\ UNCHANGED <<s_a, s_rate, s_duration, s_b, s_limit, s_bin_width, s_return_bins, s_f_delta, s_sel, s_anthrophony, s_biophony, s_result, aciVars, psdVars>>

\* lines 154-162
SelSum ==
    /\ s_pc = "sum"
    /\ s_sel' = SelBins(s_a, s_bounds, s_duration)
    /\ s_pc' = "split"
    /\ UNCHANGED <<s_a, s_rate, s_duration, s_b, s_limit, s_bin_width, s_return_bins, s_f_delta, s_bounds, s_anthrophony, s_biophony, s_result, aciVars, psdVars>>

\* lines 164-166
SelSplit ==
    /\ s_pc = "split"
    /\ s_anthrophony' = Anthrophony(s_sel)
    /\ s_biophony' = Biophony(s_sel)
    /\ s_pc' = "to_decibels"
    /\ UNCHANGED <<s_a, s_rate, s_duration, s_b, s_limit, s_bin_width, s_return_bins, s_f_delta, s_bounds, s_sel, s_result, aciVars, psdVars>>

\* lines 168-178: b is given; b.data * np.invert(b.mask) keeps the bands
\* that are not masked, b.sum() sums them
SelMasked ==
    /\ s_pc = "masked"
    /\ s_return_bins' = FALSE
    /\ LET b == ScaledWatts(s_b.data, s_f_delta)
           kept == {i \in DOMAIN b : ~s_b.mask[i]}
           rest == [i \in DOMAIN s_a |->
                       IF i \in kept THEN FAdd(s_a[i], FMul(Rat(-1, 1), b[i])) ELSE s_a[i]]
       IN  /\ s_anthrophony' = FDiv(FSum(rest, DOMAIN rest), Rat(s_duration, 1))
           /\ s_biophony' = FDiv(FSum(b, kept), Rat(s_duration, 1))
    /\ s_pc' = "to_decibels"
    /\ UNCHANGED <<s_a, s_rate, s_duration, s_b, s_limit, s_bin_width, s_f_delta, s_bounds, s_sel, s_result, aciVars, psdVars>>

\* lines 180-187
SelReturn ==
    /\ s_pc = "to_decibels"
    /\ s_anthrophony' = Log10Times10(s_anthrophony)
    /\ s_biophony' = Log10Times10(s_biophony)
    /\ IF s_return_bins
       THEN /\ s_sel' = [j \in DOMAIN s_sel |-> Log10Times10(s_sel[j])]
            /\ s_result' = <<s_sel', s_anthrophony', s_biophony'>>
       ELSE /\ s_result' = <<s_anthrophony', s_biophony'>>
            /\ UNCHANGED s_sel
    /\ s_pc' = "returned"
    /\ UNCHANGED <<s_a, s_rate, s_duration, s_b, s_limit, s_bin_width, s_return_bins, s_f_delta, s_bounds, aciVars, psdVars>>

-----------------------------------------------------------------------------
(* Specifications *)

IdleAci ==
    /\ a = <<>> /\ time_delta = 0 /\ block_duration = 0
    /\ block_delta = 0 /\ n_blocks = 0 /\ remainder = 0
    /\ channel = 0 /\ f_band = 0
    /\ aci_f_band = <<>> /\ aci = <<>>
    /\ pc = "idle" /\ err = "none"
    /\ invocation = 0 /\ prev = <<>>

IdlePsd ==
    /\ p_impl = "none" /\ p_wave = "none" /\ p_rate = "none" /\ p_units = "none" /\ p_kind = "none"
    /\ p_pc = "idle" /\ p_err = "none" /\ p_trace = <<>> /\ p_result = <<>>

IdleSel ==
    /\ s_a = <<>> /\ s_rate = 0 /\ s_duration = 0 /\ s_b = NoB
    /\ s_limit = 0 /\ s_bin_width = 0 /\ s_return_bins = FALSE
    /\ s_f_delta = Zero /\ s_bounds = <<>> /\ s_sel = <<>>
    /\ s_anthrophony = Zero /\ s_biophony = Zero
    /\ s_pc = "idle" /\ s_result = <<>>

\* one call of calculate_aci
Init == InitAci /\ IdlePsd /\ IdleSel

Next ==
    \/ Partition
    \/ Undefined
    \/ AllocWork
    \/ FullBlocks
    \/ RemainderBlock
    \/ Average

Spec == Init /\ [][Next]_vars

\* two calls of calculate_aci with the same arguments
NextTwice ==
    \/ Partition
    \/ Undefined
    \/ AllocWork
    \/ FullBlocks
    \/ RemainderBlock
    \/ Average
    \/ Reinvoke

SpecTwice == Init /\ [][NextTwice]_vars

\* one call of psd
InitPsdCall == IdleAci /\ InitPsd /\ IdleSel

NextPsd ==
    \/ CheckWave
    \/ CheckSamples
    \/ CheckRate
    \/ CheckUnits
    \/ CheckKind
    \/ Spectrogram
    \/ Mean
    \/ Convert

SpecPsd == InitPsdCall /\ [][NextPsd]_vars

\* one call of sel
InitSelCall == IdleAci /\ IdlePsd /\ InitSel

NextSel ==
    \/ SelToWatts
    \/ SelBinBounds
    \/ SelSum
    \/ SelSplit
    \/ SelMasked
    \/ SelReturn

SpecSel == InitSelCall /\ [][NextSel]_vars

-----------------------------------------------------------------------------
(* Properties of calculate_aci *)

Returned == pc = "returned"

\* a configuration section 4.2 accepts, once the partition is computed
ValidConfig ==
    /\ pc \notin {"partition", "undefined", "idle"}
    /\ time_delta > 0
    /\ block_delta >= 2
    /\ NSteps >= block_delta

Slice(cell) == a[cell[1]][cell[2]]

Out(cell) == aci[cell[1]][cell[2]]

\* C1: whenever time_delta > 0 and block_delta = round(block_duration /
\* time_delta) >= 1, the partition computed at the start of _calculate_aci
\* satisfies n_blocks * block_delta + remainder = T and
\* 0 <= remainder < block_delta.
PartitionExact ==
    (pc \notin {"partition", "undefined", "idle"} /\ time_delta > 0 /\ block_delta >= 1)
        => /\ block_delta = Around(block_duration, time_delta)
           /\ (n_blocks * block_delta) + remainder = NSteps
           /\ 0 <= remainder
           /\ remainder < block_delta

\* a partition with two full blocks and one left-over step has been computed
PartitionExactWitness ==
    /\ pc = "alloc" /\ time_delta > 0
    /\ NSteps = 5 /\ block_delta = 2 /\ n_blocks = 2 /\ remainder = 1

\* the sum of the ratios of the full blocks 0 .. nb-1 of slice s
RECURSIVE FullRatioSum(_, _, _, _)
FullRatioSum(s, T, nb, bd) ==
    IF nb <= 0 THEN Zero
    ELSE FAdd(FullRatioSum(s, T, nb - 1, bd), FullBlockRatio(s, T, nb - 1, bd))

\* the numerator of C2: the full-block ratios, and the fractional-block ratio
\* only when remainder > 1
BlockRatioSum(s, T, nb, r, bd) ==
    FAdd(FullRatioSum(s, T, nb, bd), IF r > 1 THEN RemainderRatio(s, T, nb, r) ELSE Zero)

\* C2: in every (channel, band) cell the returned value is (the sum of the
\* n_blocks full-block ratios, plus the fractional-block ratio only when
\* remainder > 1) / (n_blocks + remainder / block_delta); nothing else enters
\* the numerator, so with remainder = 0 it is the plain average of the ratios.
AciIsWeightedBlockAverage ==
    (Returned /\ ValidConfig)
        => \A cell \in Cells :
              Out(cell) = FDiv(BlockRatioSum(Slice(cell), NSteps, n_blocks, remainder, block_delta),
                               FAdd(Rat(n_blocks, 1), Rat(remainder, block_delta)))

ConstantPositive(s) == \E v \in Intensity : v > 0 /\ \A i \in DOMAIN s : s[i] = v

\* C3: a slice whose intensities all equal one positive constant has D = 0 in
\* every block and gets the ACI value 0, for every valid partition
\* (block_delta >= 2, T >= block_delta, any remainder).
ConstantSliceAciZero ==
    (Returned /\ ValidConfig)
        => \A cell \in Cells :
              ConstantPositive(Slice(cell))
                 => /\ \A k \in 0 .. n_blocks - 1 : FullBlockD(Slice(cell), k, block_delta) = 0
                    /\ Out(cell) = Zero

\* C4: the output cell (c, f) depends only on the slice a[c, f, :] and the
\* partition.  Stated on one tensor: two cells holding the same slice (the
\* tensor is then its own permutation) carry the same output value.
CellDependsOnlyOnOwnSlice ==
    (Returned /\ ValidConfig)
        => \A p \in Cells : \A q \in Cells :
              Slice(p) = Slice(q) => Out(p) = Out(q)

\* C5: calculate_aci is deterministic: a second call with the same tensor,
\* time_delta and block_duration returns the same value in every cell, for
\* every valid partition including remainder = 0 and remainder = 1.
SecondCallReturnsSame ==
    (Returned /\ ValidConfig /\ invocation = 2) => aci = prev

\* C6: the partition step ends in an error and yields no partition or result
\* whenever block_delta < 1 or time_delta <= 0.  Stated for time_delta < 0
\* with a negative block_delta and a tensor of at least one time step, where
\* every step of the code is defined: such a call never returns a result.
InvalidPartitionRejected ==
    (time_delta < 0 /\ block_delta < 0 /\ NSteps >= 1) => pc # "returned"

\* C7: calculate_aci ends in an error and returns no index values whenever
\* block_delta < 2 or T < block_delta.  Stated for a tensor with at least one
\* time step and the partitions computed from a positive time_delta: a call
\* that returns had block_delta >= 2 and T >= block_delta.
DegenerateBlocksRejected ==
    (Returned /\ time_delta > 0 /\ block_delta >= 1 /\ NSteps >= 1)
        => (block_delta >= 2 /\ NSteps >= block_delta)

\* block k of slice s is all-silent
SilentBlock(s, k, bd) == \A i \in (bd * k) .. ((bd * (k + 1)) - 1) : s[i] = 0

HasSilentBlock(s) == \E k \in 0 .. n_blocks - 1 : SilentBlock(s, k, block_delta)

\* the values the slice s alone allows for its cell: g is what the last slot
\* of its own work array held when allocated
OwnValues(s) ==
    { AverageOverBlocks([i \in 0 .. n_blocks |->
                            IF i < n_blocks THEN FullBlockRatio(s, NSteps, i, block_delta)
                            ELSE IF remainder > 1 THEN RemainderRatio(s, NSteps, n_blocks, remainder)
                            ELSE g],
                        n_blocks, remainder, block_delta) : g \in Garbage }

RemainderNormalisedByLastSamples ==
    (pc = "average" /\ ValidConfig /\ remainder > 1)
        => aci_f_band[n_blocks] =
              FDiv(Rat(RemainderD(a[channel][f_band], n_blocks, remainder), 1),
                   Rat(ISum(a[channel][f_band], (NSteps - remainder) .. (NSteps - 1)), 1))

\* D of block k as Pieretti et al. define it: the absolute differences of
\* the consecutive samples of the block's own time range
OwnRangeD(s, k, bd) ==
    ISum([t \in (bd * k) .. ((bd * (k + 1)) - 2) |-> Abs(s[t] - s[t + 1])],
         (bd * k) .. ((bd * (k + 1)) - 2))

\* C13: for every full block k, D is the sum of |a[t] - a[t+1]| over the
\* consecutive time steps t with k * block_delta <= t < (k+1) * block_delta - 1:
\* every sample entering block k's D lies in block k's own time range, the
\* range whose intensities form the normalising sum.
FullBlockDWithinOwnBlock ==
    (pc = "remainder" /\ ValidConfig)
        => \A k \in 0 .. n_blocks - 1 :
              /\ FullBlockReads(k, block_delta) \subseteq (block_delta * k) .. ((block_delta * (k + 1)) - 1)
              /\ aci_f_band[k] =
                    FDiv(Rat(OwnRangeD(a[channel][f_band], k, block_delta), 1),
                         Rat(FullBlockSum(a[channel][f_band], NSteps, k, block_delta), 1))

\* C14: for every valid configuration (block_delta >= 2, T >= block_delta),
\* every time index _calculate_aci reads stays within [0, T): the indices of
\* the full-block differences, those of the remainder differences, and both
\* normalising slices, which are never clipped.
ReadsStayInRange ==
    ValidConfig
        => /\ \A k \in 0 .. n_blocks - 1 :
                 /\ FullBlockReads(k, block_delta) \subseteq 0 .. NSteps - 1
                 /\ block_delta * (k + 1) <= NSteps
                 /\ PySlice(NSteps, block_delta * k, block_delta * (k + 1))
                       = (block_delta * k) .. ((block_delta * (k + 1)) - 1)
           /\ remainder > 1 =>
                 /\ RemainderReads(n_blocks, remainder) \subseteq 0 .. NSteps - 1
                 /\ remainder + 1 <= NSteps
                 /\ PySlice(NSteps, -(remainder + 1), -1)
                       = (NSteps - (remainder + 1)) .. (NSteps - 2)

\* a call returned after computing one full block of three steps and a
\* remainder block of two steps
ReadsWitness ==
    /\ Returned /\ ValidConfig
    /\ NSteps = 5 /\ block_delta = 3 /\ n_blocks = 1 /\ remainder = 2
    /\ FullBlockReads(0, block_delta) = {0, 1, 2}
    /\ RemainderReads(n_blocks, remainder) = {0, 1}

-----------------------------------------------------------------------------
(* Properties of psd *)

PsdEnded == p_pc \in {"returned", "raised"}

\* C9 as claimed: psd called with units outside {'decibels', 'watts'} ends in
\* a ValueError raised at call entry, before the wave is constructed or read
\* and before any spectrogram is computed.  Stated for a wave that can be
\* loaded.
BadUnitsRejectedAtEntry ==
    (p_pc # "idle" /\ p_units \notin {"decibels", "watts"} /\ p_wave.readable)
        => /\ p_trace = <<>>
           /\ PsdEnded => (p_pc = "raised" /\ p_err = "ValueError")

\* C9 amended: psd called with units outside {'decibels', 'watts'} never
\* computes a spectrogram and never returns.  wavescape's psd raises the
\* ValueError at call entry; nacoustik's psd raises it only after the wave was
\* constructed and read and the rate resolved, or ends in the error of one of
\* those earlier steps.
BadUnitsRejectedBeforeSpectrogram ==
    (p_pc # "idle" /\ p_units \notin {"decibels", "watts"})
        => /\ p_pc \notin {"check_kind", "spectrogram", "mean", "convert", "returned"}
           /\ \A i \in DOMAIN p_trace : p_trace[i] \in {"Wave", "read"}
           /\ p_impl = "wavescape" => p_trace = <<>>
           /\ p_pc = "raised" =>
                 \/ p_err = "ValueError"
                 \/ p_impl = "nacoustik" /\ p_err = "OSError" /\ ~p_wave.readable
                 \/ p_impl = "nacoustik" /\ p_err = "AttributeError" /\ ~p_wave.rate

\* nacoustik's psd rejected the units after constructing and reading the wave
BadUnitsWitness ==
    /\ p_impl = "nacoustik" /\ p_units = "pascals"
    /\ p_pc = "raised" /\ p_err = "ValueError"
    /\ p_trace = <<"Wave", "read">>

\* what the docstring of psd promises for units u and kind k
InUnits(u, x) == IF u = "decibels" THEN Decibels(x) ELSE Watts(x)

PromisedPsdValue(u, k) ==
    IF k = "mean" THEN <<"f", "t", InUnits(u, "psd_mean")>>
    ELSE IF k = "both" THEN <<"f", "t", InUnits(u, "psd"), InUnits(u, "psd_mean")>>
    ELSE <<"f", "t", InUnits(u, "psd")>>

\* C10: for every accepted units and kind, psd returns (f, t, psd) for
\* 'spectrogram', (f, t, psd_mean) for 'mean' and (f, t, psd, psd_mean) for
\* 'both', in the requested units; no accepted combination returns nothing.
PsdReturnsPromisedTuple ==
    (p_impl = "nacoustik" /\ p_pc = "returned")
        => p_result = PromisedPsdValue(p_units, p_kind)

-----------------------------------------------------------------------------
(* Properties of sel *)

\* the bands of s_a whose frequency i * f_delta lies in [lo, hi) Hz
BandsBetween(lo, hi) ==
    {i \in DOMAIN s_a :
        /\ i * s_rate >= lo * 2 * (SelNBands - 1)
        /\ i * s_rate < hi * 2 * (SelNBands - 1)}

\* the energy per minute of a set of bands, on the decibel scale
BandLevel(S) == Log10Times10(FDiv(FSum(s_a, S), Rat(s_duration, 1)))

\* C11: in sel called without b, for every bin_width and limit, anthrophony
\* is the sum of exactly the frequency bins below `limit` Hz and biophony the
\* sum of the bins from `limit` Hz up to 10 kHz: bin_width does not move the
\* boundary and limit does.
SelSplitsAtLimit ==
    (s_pc = "returned" /\ ~s_b.given)
        => /\ s_anthrophony = BandLevel(BandsBetween(0, s_limit))
           /\ s_biophony = BandLevel(BandsBetween(s_limit, 10001))

====
